---- MODULE Spec2Model ----
(***************************************************************************)
(* Model of the pronunciation-accuracy scorer of shadow-en                 *)
(* (src/src/utils/helpers.ts): normalizeText, calculateWordSimilarity and  *)
(* the two-pass matcher calculateTextAccuracy, and of the practice page    *)
(* (src/src/app/practice/page.tsx) that plays the video up to each pause   *)
(* point, records the repetition and has it scored.                        *)
(* The transcript route (src/unnamed/part_004) that cuts a transcript into  *)
(* the pause points is modelled by its two list functions.                 *)
(*                                                                         *)
(* A text is a sequence of one-character strings.  Token indices are       *)
(* 0-based as in the source; -1 is findIndex's "not found".                *)
(***************************************************************************)
EXTENDS Integers, Sequences, FiniteSets, Bags, TLC

VARIABLES
    expected,       \* argument `expected` of the current / last call
    actual,         \* argument `actual` of the current / last call
    expectedWords,  \* const expectedWords (line 75)
    actualWords,    \* const actualWords (line 76)
    matches,        \* let matches (line 80)
    usedIndices,    \* const usedIndices (line 81)
    matchLog,       \* history: the (expected index, actual index, pass) pairings made
    idx,            \* position of the running forEach in expectedWords (0-based)
    pc,             \* "idle" | "exact" | "fuzzy" | "score" | "done"
    staleFrame,     \* history: the current call was entered over an earlier call's leftovers
    result          \* value returned by the last call; Pending while one runs

\* The practice page (practice/page.tsx, state hooks of lines 45-56)
VARIABLES
    sessionStarted,     \* useState(false), line 50
    currentPauseIndex,  \* useState(0), line 45
    isVideoPlaying,     \* useState(false), line 46
    isRecording,        \* useState(false), line 47
    videoCurrentTime,   \* useState(0), line 48, in half seconds
    practiceResults,    \* useState([]), line 49
    practiceCompleted,  \* useState(false), line 51
    currentRecognition, \* useState(""), line 52
    showResults,        \* useState(false), line 53
    currentResult,      \* useState(null), lines 54-56
    timers,             \* the setTimeout callbacks that are armed, as a bag
    listening,          \* the recognition objects that were started and have not
                        \* ended, each known by the pause index its onresult
                        \* handler closed over (lines 64-127)
    playerState,        \* the embedded player, by the last command posted to it
    pausedAt,           \* history: the pause indices at which this session's
                        \* playing video was stopped
    sessions            \* history: how often a session was started

\* The transcript route (processTranscriptForPractice and the two functions
\* it hands its list to)
VARIABLES
    processedItems, \* const processedItems, the list handed to mergeShortSegments
    merged,         \* const merged, the list handed to spaceSuitableForPractice
    spaced,         \* the list returned to the caller
    stage           \* "idle" | "processed" | "merged" | "spaced"

scorerVars == <<expected, actual, expectedWords, actualWords, matches, usedIndices,
                matchLog, idx, pc, staleFrame, result>>

pageVars == <<sessionStarted, currentPauseIndex, isVideoPlaying, isRecording,
              videoCurrentTime, practiceResults, practiceCompleted,
              currentRecognition, showResults, currentResult, timers, listening,
              playerState, pausedAt, sessions>>

transcriptVars == <<processedItems, merged, spaced, stage>>

vars == <<scorerVars, pageVars, transcriptVars>>

-----------------------------------------------------------------------------
(* Small helpers over sequences and integers *)

Min2(a, b) == IF a <= b THEN a ELSE b

Max2(a, b) == IF a >= b THEN a ELSE b

Range(s) == {s[k] : k \in 1..Len(s)}

-----------------------------------------------------------------------------
(* Characters: String.prototype.toLowerCase and the regex classes \w, \s   *)

LowerLetters ==
    <<"a","b","c","d","e","f","g","h","i","j","k","l","m",
      "n","o","p","q","r","s","t","u","v","w","x","y","z">>

UpperLetters ==
    <<"A","B","C","D","E","F","G","H","I","J","K","L","M",
      "N","O","P","Q","R","S","T","U","V","W","X","Y","Z">>

Digits == {"0","1","2","3","4","5","6","7","8","9"}

\* the lower-case letter of each upper-case letter
LowerOf ==
    [c \in {UpperLetters[k] : k \in 1..Len(UpperLetters)} |->
        LowerLetters[CHOOSE k \in 1..Len(UpperLetters) : UpperLetters[k] = c]]

\* c.toLowerCase() of one character
LowerChar(c) == IF c \in DOMAIN LowerOf THEN LowerOf[c] ELSE c

\* text.toLowerCase()
toLowerCase(text) == [k \in 1..Len(text) |-> LowerChar(text[k])]

\* the members of the regex class \w : [A-Za-z0-9_]
WordChars == Range(LowerLetters) \cup Range(UpperLetters) \cup Digits \cup {"_"}

\* the regex class \w
IsWordChar(c) == c \in WordChars

\* the regex class \s (the ASCII members)
IsSpaceChar(c) == c \in {" ", "\t", "\n", "\r"}

\* text.replace(/[^\w\s]/g, "")
StripNonWord(text) == SelectSeq(text, LAMBDA c : IsWordChar(c) \/ IsSpaceChar(c))

\* text.split(/\s+/): the pieces between maximal whitespace runs; a leading or
\* trailing run leaves an empty piece, and "" splits into [""].
RECURSIVE SplitFrom(_, _, _)
SplitFrom(text, k, cur) ==
    IF k > Len(text) THEN <<cur>>
    ELSE IF IsSpaceChar(text[k])
         THEN IF k > 1 /\ IsSpaceChar(text[k - 1])
              THEN SplitFrom(text, k + 1, cur)
              ELSE <<cur>> \o SplitFrom(text, k + 1, <<>>)
         ELSE SplitFrom(text, k + 1, Append(cur, text[k]))

SplitWhitespace(text) == SplitFrom(text, 1, <<>>)

normalizeTextNoFilter(text) == SplitWhitespace(StripNonWord(toLowerCase(text)))

normalizeTextNoLower(text) ==
    SelectSeq(SplitWhitespace(StripNonWord(text)), LAMBDA word : Len(word) > 0)

\* const normalizeText = (text) => text.toLowerCase().replace(...).split(...).filter(...)
normalizeText(text) ==
    SelectSeq(SplitWhitespace(StripNonWord(toLowerCase(text))),
              LAMBDA word : Len(word) > 0)

-----------------------------------------------------------------------------
(* calculateWordSimilarity (lines 121-153) *)

\* matrix[word2.length][word1.length] after the initialisation (lines 128-133)
\* and the fill (lines 136-148); word.charAt(i - 1) is word[i] here.
EditDistanceSubstTwo(word1, word2) ==
    LET matrix[i \in 0..Len(word2), j \in 0..Len(word1)] ==
            IF i = 0 THEN j
            ELSE IF j = 0 THEN i
            ELSE IF word2[i] = word1[j] THEN matrix[i - 1, j - 1]
            ELSE Min2(matrix[i - 1, j - 1] + 2,
                      Min2(matrix[i, j - 1] + 1, matrix[i - 1, j] + 1))
    IN  matrix[Len(word2), Len(word1)]

EditDistance(word1, word2) ==
    LET matrix[i \in 0..Len(word2), j \in 0..Len(word1)] ==
            IF i = 0 THEN j
            ELSE IF j = 0 THEN i
            ELSE IF word2[i] = word1[j] THEN matrix[i - 1, j - 1]
            ELSE Min2(matrix[i - 1, j - 1] + 1,
                      Min2(matrix[i, j - 1] + 1, matrix[i - 1, j] + 1))
    IN  matrix[Len(word2), Len(word1)]

calculateWordSimilarityByWord1(word1, word2) ==
    IF Len(word1) = 0
    THEN (IF Len(word2) = 0 THEN [num |-> 1, den |-> 1] ELSE [num |-> 0, den |-> 1])
    ELSE IF Len(word2) = 0 THEN [num |-> 0, den |-> 1]
    ELSE LET maxLength == Len(word1)
             distance  == EditDistance(word1, word2)
         IN  [num |-> maxLength - distance, den |-> maxLength]

\* The returned number as the exact fraction num / den.
calculateWordSimilarity(word1, word2) ==
    IF Len(word1) = 0
    THEN (IF Len(word2) = 0 THEN [num |-> 1, den |-> 1] ELSE [num |-> 0, den |-> 1])
    ELSE IF Len(word2) = 0 THEN [num |-> 0, den |-> 1]
    ELSE LET maxLength == Max2(Len(word1), Len(word2))
             distance  == EditDistance(word1, word2)
         IN  [num |-> maxLength - distance, den |-> maxLength]

\* The accesses calculateWordSimilarity makes to its table, in program order.
\* A "row" access is matrix[i] = [i] (the row is created with its column 0), a
\* "cell" access is matrix[row][col] = ... after reading the cells in reads,
\* and the "read" access is the final matrix[word2.length][word1.length].
RowInitsShort(word2) ==
    [k \in 1..Len(word2) |-> [kind |-> "row", row |-> k - 1, col |-> 0, reads |-> {}]]

\* lines 128-130: for (let i = 0; i <= word2.length; i++) matrix[i] = [i]
RowInits(word2) ==
    [k \in 1..(Len(word2) + 1) |-> [kind |-> "row", row |-> k - 1, col |-> 0, reads |-> {}]]

\* lines 131-133: for (let j = 0; j <= word1.length; j++) matrix[0][j] = j
ColumnInits(word1) ==
    [k \in 1..(Len(word1) + 1) |-> [kind |-> "cell", row |-> 0, col |-> k - 1, reads |-> {}]]

\* lines 138-146: the cells read to compute matrix[i][j]
CellReads(i, j, word1, word2) ==
    IF word2[i] = word1[j]
    THEN {<<i - 1, j - 1>>}
    ELSE {<<i - 1, j - 1>>, <<i, j - 1>>, <<i - 1, j>>}

\* lines 136-148: both loops, row by row
Fills(word1, word2) ==
    [k \in 1..(Len(word2) * Len(word1)) |->
        LET i == ((k - 1) \div Len(word1)) + 1
            j == ((k - 1) % Len(word1)) + 1
        IN  [kind |-> "cell", row |-> i, col |-> j, reads |-> CellReads(i, j, word1, word2)]]

\* lines 125-151 for two non-empty words
MatrixAccesses(word1, word2) ==
    RowInits(word2) \o ColumnInits(word1) \o Fills(word1, word2)
        \o << [kind |-> "read", row |-> Len(word2), col |-> Len(word1),
               reads |-> {<<Len(word2), Len(word1)>>}] >>

\* the cells that hold a number just before access k: written earlier, in a
\* row that was not created anew since
WrittenBefore(acc, k) ==
    {<<acc[h].row, acc[h].col>> : h \in
        {h \in 1..(k - 1) :
            /\ acc[h].kind # "read"
            /\ \A g \in (h + 1)..(k - 1) :
                   ~(acc[g].kind = "row" /\ acc[g].row = acc[h].row)}}

\* access k reads a cell that holds nothing, or writes into a row that was
\* never created
FaultyAccess(acc, k) ==
    \/ ~(acc[k].reads \subseteq WrittenBefore(acc, k))
    \/ /\ acc[k].kind = "cell"
       /\ ~\E h \in 1..(k - 1) : acc[h].kind = "row" /\ acc[h].row = acc[k].row

\* The 60% similarity threshold 0.6 = ThresholdNum / ThresholdDen (line 104)
ThresholdNum == 6

ThresholdDen == 10

SimilarEnoughInclusive(expectedWord, actualWord) ==
    LET similarity == calculateWordSimilarity(expectedWord, actualWord)
    IN  similarity.num * ThresholdDen >= ThresholdNum * similarity.den

\* similarity > 0.6 (lines 103-104)
SimilarEnough(expectedWord, actualWord) ==
    LET similarity == calculateWordSimilarity(expectedWord, actualWord)
    IN  similarity.num * ThresholdDen > ThresholdNum * similarity.den

-----------------------------------------------------------------------------
(* calculateTextAccuracy (lines 60-116) *)

NotFound == -1

\* Array.prototype.findIndex over the indices satisfying the predicate
FirstIndex(S) == IF S = {} THEN NotFound ELSE CHOOSE j \in S : \A k \in S : j <= k

LastIndex(S) == IF S = {} THEN NotFound ELSE CHOOSE j \in S : \A k \in S : j >= k

ExactMatchIndexLast(expectedWord, aWords, used) ==
    LastIndex({j \in 0..(Len(aWords) - 1) :
                   j \notin used /\ aWords[j + 1] = expectedWord})

\* lines 85-88
ExactMatchIndex(expectedWord, aWords, used) ==
    FirstIndex({j \in 0..(Len(aWords) - 1) :
                    j \notin used /\ aWords[j + 1] = expectedWord})

FuzzyMatchIndexUsedToo(expectedWord, aWords, used) ==
    FirstIndex({j \in 0..(Len(aWords) - 1) : SimilarEnough(expectedWord, aWords[j + 1])})

\* lines 99-105
FuzzyMatchIndex(expectedWord, aWords, used) ==
    FirstIndex({j \in 0..(Len(aWords) - 1) :
                    j \notin used /\ SimilarEnough(expectedWord, aWords[j + 1])})

\* let matches = 0; const usedIndices = new Set<number>() (lines 80-81)
FreshMatchState == [matches |-> 0, usedIndices |-> {}, matchLog |-> {}]

Matched(st, p, j, pass) ==
    [matches     |-> st.matches + 1,
     usedIndices |-> st.usedIndices \cup {j},
     matchLog    |-> st.matchLog \cup {[e |-> p, a |-> j, pass |-> pass]}]

\* one iteration of the first forEach (lines 84-93) for expectedWords[p]
ExactIteration(st, p, eWords, aWords) ==
    LET exactMatchIndex == ExactMatchIndex(eWords[p + 1], aWords, st.usedIndices)
    IN  IF exactMatchIndex # NotFound
        THEN Matched(st, p, exactMatchIndex, "exact")
        ELSE st

FuzzyIterationNoShortCircuit(st, p, eWords, aWords) ==
    LET fuzzyMatchIndex == FuzzyMatchIndex(eWords[p + 1], aWords, st.usedIndices)
    IN  IF fuzzyMatchIndex # NotFound
        THEN Matched(st, p, fuzzyMatchIndex, "fuzzy")
        ELSE st

FuzzyIterationLateShortCircuit(st, p, eWords, aWords) ==
    IF st.matches > Len(eWords) THEN st
    ELSE LET fuzzyMatchIndex == FuzzyMatchIndex(eWords[p + 1], aWords, st.usedIndices)
         IN  IF fuzzyMatchIndex # NotFound
             THEN Matched(st, p, fuzzyMatchIndex, "fuzzy")
             ELSE st

\* one iteration of the second forEach (lines 96-111) for expectedWords[p]
FuzzyIteration(st, p, eWords, aWords) ==
    IF st.matches >= Len(eWords) THEN st
    ELSE LET fuzzyMatchIndex == FuzzyMatchIndex(eWords[p + 1], aWords, st.usedIndices)
         IN  IF fuzzyMatchIndex # NotFound
             THEN Matched(st, p, fuzzyMatchIndex, "fuzzy")
             ELSE st

\* Math.round of the non-negative fraction num / den in exact arithmetic
\* (halves round up)
MathRound(num, den) == (2 * num + den) \div (2 * den)

\* ---- the double arithmetic of lines 114-115 ----
\* A non-negative double is kept as its exact value
\*     (limbs[1]*B^4 + limbs[2]*B^3 + limbs[3]*B^2 + limbs[4]*B + limbs[5]) / 2^(52 + exp)
\* with B = LimbBase = 2^13, so that B^4 = 2^52 and limbs[1] carries the bits
\* above the 52 fraction bits of the significand.
LimbBase == 8192

Pow2(k) == 2 ^ k

\* the exponent that brings m / n into [1, 2): m * 2^exp / n
BinaryExponent(m, n) ==
    IF m < n
    THEN CHOOSE k \in 1..13 : m * Pow2(k) >= n /\ m * Pow2(k - 1) < n
    ELSE 0 - (CHOOSE j \in 0..12 : n * Pow2(j) <= m /\ m < n * Pow2(j + 1))

DoubleZero == [exp |-> 0, limbs |-> <<0, 0, 0, 0, 0>>]

\* m / n with the exponent k of the quotient: the first 53 bits of the
\* quotient by long division, rounded to nearest, ties to even
DivideAt(m, n, k) ==
    LET a  == IF k >= 0 THEN m * Pow2(k) ELSE m
        d  == IF k >= 0 THEN n ELSE n * Pow2(0 - k)
        d0 == a \div d
        r0 == a % d
        d1 == (r0 * LimbBase) \div d
        r1 == (r0 * LimbBase) % d
        d2 == (r1 * LimbBase) \div d
        r2 == (r1 * LimbBase) % d
        d3 == (r2 * LimbBase) \div d
        r3 == (r2 * LimbBase) % d
        d4 == (r3 * LimbBase) \div d
        r4 == (r3 * LimbBase) % d
        up == 2 * r4 > d \/ (2 * r4 = d /\ d4 % 2 = 1)
    IN  [exp |-> k, limbs |-> <<d0, d1, d2, d3, d4 + (IF up THEN 1 ELSE 0)>>]

\* matches / expectedWords.length (line 114): the quotient of two integers
\* rounded to a 53-bit significand
DoubleDivide(m, n) ==
    IF m = 0 THEN DoubleZero
    ELSE CHOOSE q \in {DivideAt(m, n, k) : k \in {BinaryExponent(m, n)}} : TRUE

\* ... * 100 (line 114): the exact product has 59 or 60 bits and is rounded
\* back to 53 bits, ties to even
DoubleTimes100(q) ==
    LET t0 == 100 * q.limbs[5]
        p0 == t0 % LimbBase
        t1 == 100 * q.limbs[4] + (t0 \div LimbBase)
        p1 == t1 % LimbBase
        t2 == 100 * q.limbs[3] + (t1 \div LimbBase)
        p2 == t2 % LimbBase
        t3 == 100 * q.limbs[2] + (t2 \div LimbBase)
        p3 == t3 % LimbBase
        p4 == 100 * q.limbs[1] + (t3 \div LimbBase)
        s    == IF p4 < 128 THEN 6 ELSE 7
        low  == p0 % Pow2(s)
        keep == p0 \div Pow2(s)
        half == Pow2(s - 1)
        inc  == IF low > half \/ (low = half /\ keep % 2 = 1) THEN 1 ELSE 0
        u0 == (keep + inc) * Pow2(s)
        u1 == p1 + (u0 \div LimbBase)
        u2 == p2 + (u1 \div LimbBase)
        u3 == p3 + (u2 \div LimbBase)
    IN  [exp   |-> q.exp,
         limbs |-> <<p4 + (u3 \div LimbBase), u3 % LimbBase, u2 % LimbBase,
                     u1 % LimbBase, u0 % LimbBase>>]

\* Math.round (line 115) of a non-negative double: floor(x + 1/2), exactly
MathRoundDouble(x) ==
    IF x.exp >= 1
    THEN (x.limbs[1] + Pow2(x.exp - 1)) \div Pow2(x.exp)
    ELSE x.limbs[1] * Pow2(0 - x.exp)
             + ((x.limbs[2] + Pow2(12 + x.exp)) \div Pow2(13 + x.exp))

AccuracyUnscaled(m, n) == Min2(100, MathRound(m, n))

\* lines 114-115
Accuracy(m, n) ==
    CHOOSE r \in {Min2(100, rounded) :
                     rounded \in {MathRoundDouble(accuracy) :
                         accuracy \in {DoubleTimes100(q) : q \in {DoubleDivide(m, n)}}}} : TRUE

EmptyInputExpectedOnly(e, a) == e = <<>>

\* !expected || !actual (line 64)
EmptyInput(e, a) == e = <<>> \/ a = <<>>

\* The whole call as a function of its arguments.
RECURSIVE ExactPass(_, _, _, _)
ExactPass(st, p, eWords, aWords) ==
    IF p >= Len(eWords) THEN st
    ELSE ExactPass(ExactIteration(st, p, eWords, aWords), p + 1, eWords, aWords)

RECURSIVE FuzzyPass(_, _, _, _)
FuzzyPass(st, p, eWords, aWords) ==
    IF p >= Len(eWords) THEN st
    ELSE FuzzyPass(FuzzyIteration(st, p, eWords, aWords), p + 1, eWords, aWords)

calculateTextAccuracy(e, a) ==
    IF EmptyInput(e, a) THEN 0
    ELSE LET eWords == normalizeText(e)
             aWords == normalizeText(a)
         IN  IF Len(eWords) = 0 THEN 0
             ELSE Accuracy(FuzzyPass(ExactPass(FreshMatchState, 0, eWords, aWords),
                                     0, eWords, aWords).matches,
                           Len(eWords))

-----------------------------------------------------------------------------
(* The texts the scorer is called with *)

\* Bounds of the enumerated inputs
MaxLen == 2

MaxWords == 2

\* a letter in both cases, whitespace, punctuation, and the underscore
Alphabet == {"a", "A", " ", ",", "_"}

\* every text of at most MaxLen characters over Alphabet
ShortTexts == UNION {[1..n -> Alphabet] : n \in 0..MaxLen}

Vocabulary == {<<"a">>, <<"a", "b">>, <<"a", "b", "c">>}

RECURSIVE Sentence(_)
Sentence(ws) ==
    IF ws = <<>> THEN <<>>
    ELSE IF Len(ws) = 1 THEN ws[1]
    ELSE ws[1] \o <<" ">> \o Sentence(Tail(ws))

\* every sentence of at most MaxWords words of Vocabulary
Sentences == {Sentence(ws) : ws \in UNION {[1..n -> Vocabulary] : n \in 0..MaxWords}}

\* The texts of the documented scenarios
TxtFineThankYou ==
    Sentence(<< <<"I">>, <<"a","m">>, <<"f","i","n","e">>,
                <<"t","h","a","n","k">>, <<"y","o","u">> >>)

TxtFindThankU ==
    Sentence(<< <<"I">>, <<"a","m">>, <<"f","i","n","d">>,
                <<"t","h","a","n","k">>, <<"u">> >>)

TxtHelloWorldCaps == Sentence(<< <<"H","e","l","l","o">>, <<"W","o","r","l","d">> >>)

TxtHelloWorldLower == Sentence(<< <<"h","e","l","l","o">>, <<"w","o","r","l","d">> >>)

TxtHelloWorldPunct ==
    Sentence(<< <<"H","e","l","l","o",",">>, <<"W","o","r","l","d","!">> >>)

TxtTest == <<"t","e","s","t">>

TxtTestTest == Sentence(<<TxtTest, TxtTest>>)

TxtCat == <<"c","a","t">>

TxtCot == <<"c","o","t">>

TxtHello == <<"h","e","l","l","o">>

TxtHelp == <<"h","e","l","p">>

\* leading, repeated and trailing whitespace around the words a and b
TxtSpaced == <<" ", "\t", "a", " ", " ", "b", "\n">>

TxtAB == Sentence(<< <<"a">>, <<"b">> >>)

TxtBA == Sentence(<< <<"b">>, <<"a">> >>)

ScenarioPairs ==
    { <<TxtFineThankYou, TxtFindThankU>>,
      <<TxtFineThankYou, TxtFineThankYou>>,
      <<TxtHelloWorldCaps, TxtHelloWorldLower>>,
      <<TxtHelloWorldPunct, TxtHelloWorldCaps>>,
      <<TxtHelloWorldPunct, TxtHelloWorldPunct>>,
      <<TxtTest, TxtTestTest>>,
      <<TxtTestTest, TxtTest>>,
      <<TxtCat, TxtCot>>,
      <<TxtHello, TxtHelp>>,
      <<TxtHelp, TxtHello>>,
      <<TxtAB, TxtBA>>,
      <<TxtSpaced, TxtAB>>,
      <<<<>>, TxtHello>> }

Inputs == (ShortTexts \X ShortTexts) \cup (Sentences \X Sentences) \cup ScenarioPairs

-----------------------------------------------------------------------------
(* The state machine: calls of calculateTextAccuracy, one after another *)

Pending == -1

\* currentResult = null
NoResult == [pauseId |-> 0, accuracy |-> 0, userText |-> <<>>, expectedText |-> <<>>]

\* the page as it is mounted (lines 44-62), practiceData loaded
PageInit ==
    /\ sessionStarted = FALSE
    /\ currentPauseIndex = 0
    /\ isVideoPlaying = FALSE
    /\ isRecording = FALSE
    /\ videoCurrentTime = 0
    /\ practiceResults = <<>>
    /\ practiceCompleted = FALSE
    /\ currentRecognition = <<>>
    /\ showResults = FALSE
    /\ currentResult = NoResult
    /\ timers = EmptyBag
    /\ listening = {}
    /\ playerState = "unstarted"
    /\ pausedAt = {}
    /\ sessions = 0

\* no transcript has been requested
TranscriptIdle ==
    /\ processedItems = <<>>
    /\ merged = <<>>
    /\ spaced = <<>>
    /\ stage = "idle"

Init ==
    /\ PageInit
    /\ TranscriptIdle
    /\ expected = <<>>
    /\ actual = <<>>
    /\ expectedWords = <<>>
    /\ actualWords = <<>>
    /\ matches = 0
    /\ usedIndices = {}
    /\ matchLog = {}
    /\ idx = 0
    /\ pc = "idle"
    /\ staleFrame = FALSE
    /\ result = Pending

CanCall == pc = "idle"

CallEmptySentinel(e, a) ==
    /\ CanCall
    /\ EmptyInput(e, a)
    /\ expected' = e
    /\ actual' = a
    /\ expectedWords' = <<>>
    /\ actualWords' = <<>>
    /\ matches' = 0
    /\ usedIndices' = {}
    /\ matchLog' = {}
    /\ idx' = 0
    /\ staleFrame' = (usedIndices # {})
    /\ pc' = "done"
    /\ result' = -1

\* line 64: if (!expected || !actual) return 0
CallEmpty(e, a) ==
    /\ CanCall
    /\ EmptyInput(e, a)
    /\ expected' = e
    /\ actual' = a
    /\ expectedWords' = <<>>
    /\ actualWords' = <<>>
    /\ matches' = 0
    /\ usedIndices' = {}
    /\ matchLog' = {}
    /\ idx' = 0
    /\ staleFrame' = (usedIndices # {})
    /\ pc' = "done"
    /\ result' = 0

CallNoWordsScored(e, a) ==
    LET eWords == normalizeText(e)
    IN  /\ CanCall
        /\ ~EmptyInput(e, a)
        /\ Len(eWords) = 0
        /\ expected' = e
        /\ actual' = a
        /\ expectedWords' = eWords
        /\ actualWords' = normalizeText(a)
        /\ matches' = 0
        /\ usedIndices' = {}
        /\ matchLog' = {}
        /\ idx' = 0
        /\ staleFrame' = (usedIndices # {})
        /\ pc' = "score"
        /\ result' = Pending

\* lines 64-78: both texts tokenized, if (expectedWords.length === 0) return 0
CallNoWords(e, a) ==
    LET eWords == normalizeText(e)
    IN  /\ CanCall
        /\ ~EmptyInput(e, a)
        /\ Len(eWords) = 0
        /\ expected' = e
        /\ actual' = a
        /\ expectedWords' = eWords
        /\ actualWords' = normalizeText(a)
        /\ matches' = 0
        /\ usedIndices' = {}
        /\ matchLog' = {}
        /\ idx' = 0
        /\ staleFrame' = (usedIndices # {})
        /\ pc' = "done"
        /\ result' = 0

CallBeginStale(e, a) ==
    LET eWords == normalizeText(e)
    IN  /\ CanCall
        /\ ~EmptyInput(e, a)
        /\ Len(eWords) # 0
        /\ expected' = e
        /\ actual' = a
        /\ expectedWords' = eWords
        /\ actualWords' = normalizeText(a)
        /\ matches' = FreshMatchState.matches
        /\ usedIndices' = usedIndices
        /\ matchLog' = FreshMatchState.matchLog
        /\ idx' = 0
        /\ staleFrame' = (usedIndices # {})
        /\ pc' = "exact"
        /\ result' = Pending

\* lines 64-84: the call passes both guards and enters the first forEach
CallBegin(e, a) ==
    LET eWords == normalizeText(e)
    IN  /\ CanCall
        /\ ~EmptyInput(e, a)
        /\ Len(eWords) # 0
        /\ expected' = e
        /\ actual' = a
        /\ expectedWords' = eWords
        /\ actualWords' = normalizeText(a)
        /\ matches' = FreshMatchState.matches
        /\ usedIndices' = FreshMatchState.usedIndices
        /\ matchLog' = FreshMatchState.matchLog
        /\ idx' = 0
        /\ staleFrame' = (usedIndices # {})
        /\ pc' = "exact"
        /\ result' = Pending

MatchState == [matches |-> matches, usedIndices |-> usedIndices, matchLog |-> matchLog]

SetMatchState(st) ==
    /\ matches' = st.matches
    /\ usedIndices' = st.usedIndices
    /\ matchLog' = st.matchLog

\* lines 84-93: one iteration of the exact pass
ExactStep ==
    /\ pc = "exact"
    /\ SetMatchState(ExactIteration(MatchState, idx, expectedWords, actualWords))
    /\ IF idx + 1 < Len(expectedWords)
       THEN idx' = idx + 1 /\ pc' = "exact"
       ELSE idx' = 0 /\ pc' = "fuzzy"
    /\ UNCHANGED <<expected, actual, expectedWords, actualWords, staleFrame, result>>
    /\ UNCHANGED <<pageVars, transcriptVars>>

\* lines 96-111: one iteration of the fuzzy pass
FuzzyStep ==
    /\ pc = "fuzzy"
    /\ SetMatchState(FuzzyIteration(MatchState, idx, expectedWords, actualWords))
    /\ IF idx + 1 < Len(expectedWords)
       THEN idx' = idx + 1 /\ pc' = "fuzzy"
       ELSE idx' = 0 /\ pc' = "score"
    /\ UNCHANGED <<expected, actual, expectedWords, actualWords, staleFrame, result>>
    /\ UNCHANGED <<pageVars, transcriptVars>>

ReturnWrongDenominator ==
    /\ pc = "score"
    /\ result' = IF Len(actualWords) = 0 THEN 0
                  ELSE Min2(100, MathRound(matches * 100, Len(actualWords)))
    /\ pc' = "done"
    /\ UNCHANGED <<expected, actual, expectedWords, actualWords, matches,
                   usedIndices, matchLog, idx, staleFrame>>
    /\ UNCHANGED <<pageVars, transcriptVars>>

\* lines 114-115: return Math.min(100, Math.round(accuracy))
Return ==
    /\ pc = "score"
    /\ result' = Accuracy(matches, Len(expectedWords))
    /\ pc' = "done"
    /\ UNCHANGED <<expected, actual, expectedWords, actualWords, matches,
                   usedIndices, matchLog, idx, staleFrame>>
    /\ UNCHANGED <<pageVars, transcriptVars>>

\* The caller has consumed the returned number (practice/page.tsx line 69); the
\* dead frame's matches and usedIndices are left as they were until a later
\* call creates its own.
Forget ==
    /\ pc = "done"
    /\ expected' = <<>>
    /\ actual' = <<>>
    /\ expectedWords' = <<>>
    /\ actualWords' = <<>>
    /\ matchLog' = {}
    /\ idx' = 0
    /\ pc' = "idle"
    /\ staleFrame' = FALSE
    /\ result' = Pending
    /\ UNCHANGED <<matches, usedIndices>>
    /\ UNCHANGED <<pageVars, transcriptVars>>

\* A call with any pair of texts; exactly one of the three entries applies.
CallWithEmptyText ==
    /\ CanCall
    /\ \E in \in Inputs : CallEmpty(in[1], in[2])
    /\ UNCHANGED <<pageVars, transcriptVars>>

CallWithoutWords ==
    /\ CanCall
    /\ \E in \in Inputs : CallNoWords(in[1], in[2])
    /\ UNCHANGED <<pageVars, transcriptVars>>

CallWithWords ==
    /\ CanCall
    /\ \E in \in Inputs : CallBegin(in[1], in[2])
    /\ UNCHANGED <<pageVars, transcriptVars>>

Next ==
    \/ CallWithEmptyText
    \/ CallWithoutWords
    \/ CallWithWords
    \/ ExactStep
    \/ FuzzyStep
    \/ Return
    \/ Forget

Spec == Init /\ [][Next]_vars

\* ---- calls on long texts ----
\* The expected text is n times the word "a"; the actual text is m times the
\* word "a" and then the word "b", so that m of the n expected tokens match.
MaxTokens == 40

LongExpected(n) == [k \in 1..(2 * n - 1) |-> IF k % 2 = 1 THEN "a" ELSE " "]

LongActual(m) ==
    [k \in 1..(2 * m + 1) |-> IF k % 2 = 0 THEN " " ELSE IF k = 2 * m + 1 THEN "b" ELSE "a"]

\* the state in which such a call enters its first forEach (lines 64-84)
InitScoring ==
    \E n \in 1..MaxTokens : \E m \in 0..n :
        /\ expected = LongExpected(n)
        /\ actual = LongActual(m)
        /\ expectedWords = normalizeText(LongExpected(n))
        /\ actualWords = normalizeText(LongActual(m))
        /\ matches = FreshMatchState.matches
        /\ usedIndices = FreshMatchState.usedIndices
        /\ matchLog = FreshMatchState.matchLog
        /\ idx = 0
        /\ pc = "exact"
        /\ staleFrame = FALSE
        /\ result = Pending
        /\ PageInit
        /\ TranscriptIdle

NextScoring ==
    \/ ExactStep
    \/ FuzzyStep
    \/ Return

SpecScoring == InitScoring /\ [][NextScoring]_vars

-----------------------------------------------------------------------------
(* The practice page (src/src/app/practice/page.tsx)                        *)
(* Times are in half seconds.  Handlers run to completion; a timeout, once  *)
(* armed, is never cleared (the page calls no clearTimeout) and fires at    *)
(* some later moment.                                                        *)

MaxPauses == 2

MaxSessions == 2

\* how many timeouts may be armed when a handler arms one more
MaxTimers == 2

\* practiceData.pauses (lines 24-28): pause k stands at k seconds
pauses ==
    [k \in 1..MaxPauses |-> [id |-> k, time |-> 2 * k, subtitle |-> TxtHelloWorldLower]]

\* what the recognizer may report, and the times a progress message may carry
Transcripts == {TxtHello}

\* half a second before the first pause, half a second before the last
Times == {1, 2 * MaxPauses - 1}

\* a timeout, with the pause index and the session it was armed in
Timer(kind, pause, session) == [kind |-> kind, pause |-> pause, session |-> session]

Armed(kind) == {t \in BagToSet(timers) : t.kind = kind}

CanArm == BagCardinality(timers) < MaxTimers

\* postMessageToVideo (lines 228-264), by its effect on the player
postMessageToVideo(command) ==
    CASE command = "playVideo"  -> "playing"
      [] command = "pauseVideo" -> "paused"
      [] OTHER                  -> playerState

\* the pause indices at which the playing video of this session has been
\* stopped, after one more pauseVideo
StoppedNow ==
    IF sessionStarted /\ ~practiceCompleted /\ isVideoPlaying
       /\ currentPauseIndex < Len(pauses)
    THEN pausedAt \cup {currentPauseIndex}
    ELSE pausedAt

\* lines 266-303, up to the first setTimeout
startPracticeSession ==
    /\ ~sessionStarted
    /\ sessions < MaxSessions
    /\ CanArm
    /\ sessionStarted' = TRUE
    /\ currentPauseIndex' = 0
    /\ practiceResults' = <<>>
    /\ practiceCompleted' = FALSE
    /\ videoCurrentTime' = 0
    /\ isRecording' = FALSE
    /\ timers' = timers (+) SetToBag({Timer("startSeek", 0, sessions + 1)})
    /\ pausedAt' = {}
    /\ sessions' = sessions + 1
    /\ UNCHANGED <<isVideoPlaying, currentRecognition, showResults, currentResult,
                   listening, playerState>>
    /\ UNCHANGED <<scorerVars, transcriptVars>>

\* lines 280-282: seekTo 0, then the next timeout
StartSeekTimer ==
    /\ \E t \in Armed("startSeek") :
           timers' = (timers (-) SetToBag({t})) (+) SetToBag({Timer("startPlay", 0, t.session)})
    /\ playerState' = postMessageToVideo("seekTo")
    /\ UNCHANGED <<sessionStarted, currentPauseIndex, isVideoPlaying, isRecording,
                   videoCurrentTime, practiceResults, practiceCompleted,
                   currentRecognition, showResults, currentResult, listening,
                   pausedAt, sessions>>
    /\ UNCHANGED <<scorerVars, transcriptVars>>

\* lines 282-301: playVideo, setIsVideoPlaying(true), the fallback timeout
StartPlayTimer ==
    /\ \E t \in Armed("startPlay") :
           timers' = IF Len(pauses) > 0
                     THEN (timers (-) SetToBag({t})) (+) SetToBag({Timer("startFallback", 0, t.session)})
                     ELSE timers (-) SetToBag({t})
    /\ playerState' = postMessageToVideo("playVideo")
    /\ isVideoPlaying' = TRUE
    /\ UNCHANGED <<sessionStarted, currentPauseIndex, isRecording, videoCurrentTime,
                   practiceResults, practiceCompleted, currentRecognition,
                   showResults, currentResult, listening, pausedAt, sessions>>
    /\ UNCHANGED <<scorerVars, transcriptVars>>

\* lines 293-299: the fallback timeout of startPracticeSession
StartFallbackTimer ==
    /\ \E t \in Armed("startFallback") : timers' = timers (-) SetToBag({t})
    /\ playerState' = postMessageToVideo("pauseVideo")
    /\ isVideoPlaying' = FALSE
    /\ pausedAt' = StoppedNow
    /\ UNCHANGED <<sessionStarted, currentPauseIndex, isRecording, videoCurrentTime,
                   practiceResults, practiceCompleted, currentRecognition,
                   showResults, currentResult, listening, sessions>>
    /\ UNCHANGED <<scorerVars, transcriptVars>>

\* the Retry and Next buttons are rendered (lines 530, 554, 595-610)
ResultPanelShown ==
    sessionStarted /\ ~practiceCompleted /\ showResults /\ currentResult # NoResult

\* the record button is rendered and enabled (lines 530, 612-620)
RecorderShown ==
    /\ sessionStarted
    /\ ~practiceCompleted
    /\ ~(showResults /\ currentResult # NoResult)
    /\ ~isVideoPlaying
    /\ ~showResults

\* lines 157-163
handleRetry ==
    /\ ResultPanelShown
    /\ showResults' = FALSE
    /\ currentResult' = NoResult
    /\ currentRecognition' = <<>>
    /\ practiceResults' = SubSeq(practiceResults, 1, Len(practiceResults) - 1)
    /\ UNCHANGED <<sessionStarted, currentPauseIndex, isVideoPlaying, isRecording,
                   videoCurrentTime, practiceCompleted, timers, listening,
                   playerState, pausedAt, sessions>>
    /\ UNCHANGED <<scorerVars, transcriptVars>>

\* lines 165-211, up to the first setTimeout
handleNext ==
    /\ ResultPanelShown
    /\ currentPauseIndex < Len(pauses) - 1 => CanArm
    /\ showResults' = FALSE
    /\ currentResult' = NoResult
    /\ currentRecognition' = <<>>
    /\ IF currentPauseIndex < Len(pauses) - 1
       THEN /\ currentPauseIndex' = currentPauseIndex + 1
            /\ timers' = timers (+) SetToBag({Timer("nextSeek", currentPauseIndex + 1, sessions)})
            /\ UNCHANGED <<practiceCompleted, playerState, isVideoPlaying, pausedAt>>
       ELSE /\ practiceCompleted' = TRUE
            /\ playerState' = postMessageToVideo("pauseVideo")
            /\ isVideoPlaying' = FALSE
            /\ UNCHANGED <<currentPauseIndex, timers, pausedAt>>
    /\ UNCHANGED <<sessionStarted, isRecording, videoCurrentTime, practiceResults,
                   listening, sessions>>
    /\ UNCHANGED <<scorerVars, transcriptVars>>

\* lines 187-189: seekTo two seconds before the next pause, then the next timeout
NextSeekTimer ==
    /\ \E t \in Armed("nextSeek") :
           timers' = (timers (-) SetToBag({t})) (+) SetToBag({Timer("nextPlay", t.pause, t.session)})
    /\ playerState' = postMessageToVideo("seekTo")
    /\ UNCHANGED <<sessionStarted, currentPauseIndex, isVideoPlaying, isRecording,
                   videoCurrentTime, practiceResults, practiceCompleted,
                   currentRecognition, showResults, currentResult, listening,
                   pausedAt, sessions>>
    /\ UNCHANGED <<scorerVars, transcriptVars>>

\* lines 189-204: playVideo, setIsVideoPlaying(true), the fallback timeout
NextPlayTimer ==
    /\ \E t \in Armed("nextPlay") :
           timers' = (timers (-) SetToBag({t})) (+) SetToBag({Timer("nextFallback", t.pause, t.session)})
    /\ playerState' = postMessageToVideo("playVideo")
    /\ isVideoPlaying' = TRUE
    /\ UNCHANGED <<sessionStarted, currentPauseIndex, isRecording, videoCurrentTime,
                   practiceResults, practiceCompleted, currentRecognition,
                   showResults, currentResult, listening, pausedAt, sessions>>
    /\ UNCHANGED <<scorerVars, transcriptVars>>

\* lines 199-203: the fallback timeout of handleNext
NextFallbackTimer ==
    /\ \E t \in Armed("nextFallback") : timers' = timers (-) SetToBag({t})
    /\ playerState' = postMessageToVideo("pauseVideo")
    /\ isVideoPlaying' = FALSE
    /\ pausedAt' = StoppedNow
    /\ UNCHANGED <<sessionStarted, currentPauseIndex, isRecording, videoCurrentTime,
                   practiceResults, practiceCompleted, currentRecognition,
                   showResults, currentResult, listening, sessions>>
    /\ UNCHANGED <<scorerVars, transcriptVars>>

\* lines 213-219; the recognition object of the current render carries the
\* onresult handler that closed over currentPauseIndex (lines 94-127)
startRecording ==
    /\ RecorderShown
    /\ ~isRecording
    /\ isRecording' = TRUE
    /\ currentRecognition' = <<>>
    /\ listening' = listening \cup {currentPauseIndex}
    /\ UNCHANGED <<sessionStarted, currentPauseIndex, isVideoPlaying, videoCurrentTime,
                   practiceResults, practiceCompleted, showResults, currentResult,
                   timers, playerState, pausedAt, sessions>>
    /\ UNCHANGED <<scorerVars, transcriptVars>>

\* lines 221-226
stopRecording ==
    /\ RecorderShown
    /\ isRecording
    /\ isRecording' = FALSE
    /\ UNCHANGED <<sessionStarted, currentPauseIndex, isVideoPlaying, videoCurrentTime,
                   practiceResults, practiceCompleted, currentRecognition,
                   showResults, currentResult, timers, listening, playerState,
                   pausedAt, sessions>>
    /\ UNCHANGED <<scorerVars, transcriptVars>>

\* lines 64-91, for the handler that closed over pause index p
handleRecognitionComplete(p, transcript) ==
    IF p >= Len(pauses)
    THEN UNCHANGED <<practiceResults, isRecording, currentResult, showResults>>
    ELSE LET currentPause == pauses[p + 1]
             scored == [pauseId      |-> currentPause.id,
                        accuracy     |-> calculateTextAccuracy(currentPause.subtitle, transcript),
                        userText     |-> transcript,
                        expectedText |-> currentPause.subtitle]
         IN  /\ practiceResults' = Append(practiceResults, scored)
             /\ isRecording' = FALSE
             /\ currentResult' = scored
             /\ showResults' = TRUE

\* lines 107-115, and the recognition's end after its single result
onresult ==
    /\ \E p \in listening : \E transcript \in Transcripts :
           /\ currentRecognition' = transcript
           /\ handleRecognitionComplete(p, transcript)
           /\ listening' = listening \ {p}
    /\ UNCHANGED <<sessionStarted, currentPauseIndex, isVideoPlaying, videoCurrentTime,
                   practiceCompleted, timers, playerState, pausedAt, sessions>>
    /\ UNCHANGED <<scorerVars, transcriptVars>>

\* lines 117-125: onerror / onend of a recognition that gave no result
onend ==
    /\ \E p \in listening : listening' = listening \ {p}
    /\ isRecording' = FALSE
    /\ UNCHANGED <<sessionStarted, currentPauseIndex, isVideoPlaying, videoCurrentTime,
                   practiceResults, practiceCompleted, currentRecognition,
                   showResults, currentResult, timers, playerState, pausedAt,
                   sessions>>
    /\ UNCHANGED <<scorerVars, transcriptVars>>

\* lines 350-361: the condition under which a progress message pauses the video
AtPausePoint(currentTime) ==
    /\ sessionStarted
    /\ ~practiceCompleted
    /\ isVideoPlaying
    /\ ~isRecording
    /\ ~showResults
    /\ currentPauseIndex < Len(pauses)
    /\ currentTime >= pauses[currentPauseIndex + 1].time - 1

\* lines 341-384: a video-progress message from the player
handleMessage ==
    /\ \E currentTime \in Times :
           /\ AtPausePoint(currentTime) => CanArm
           /\ videoCurrentTime' = currentTime
           /\ IF AtPausePoint(currentTime)
              THEN /\ playerState' = postMessageToVideo("pauseVideo")
                   /\ isVideoPlaying' = FALSE
                   /\ timers' = timers (+) SetToBag({Timer("doubleCheck", currentPauseIndex, sessions)})
                   /\ pausedAt' = StoppedNow
              ELSE UNCHANGED <<playerState, isVideoPlaying, timers, pausedAt>>
    /\ UNCHANGED <<sessionStarted, currentPauseIndex, isRecording, practiceResults,
                   practiceCompleted, currentRecognition, showResults, currentResult,
                   listening, sessions>>
    /\ UNCHANGED <<scorerVars, transcriptVars>>

\* lines 371-377: the timeout's closure holds the isVideoPlaying of the render
\* in which the message was handled, which was true
DoubleCheckTimer ==
    /\ \E t \in Armed("doubleCheck") : timers' = timers (-) SetToBag({t})
    /\ playerState' = postMessageToVideo("pauseVideo")
    /\ isVideoPlaying' = FALSE
    /\ pausedAt' = StoppedNow
    /\ UNCHANGED <<sessionStarted, currentPauseIndex, isRecording, videoCurrentTime,
                   practiceResults, practiceCompleted, currentRecognition,
                   showResults, currentResult, listening, sessions>>
    /\ UNCHANGED <<scorerVars, transcriptVars>>

\* lines 305-320, up to the setTimeout
restartPractice ==
    /\ sessionStarted
    /\ CanArm
    /\ sessionStarted' = FALSE
    /\ currentPauseIndex' = 0
    /\ practiceResults' = <<>>
    /\ practiceCompleted' = FALSE
    /\ videoCurrentTime' = 0
    /\ isRecording' = FALSE
    /\ currentRecognition' = <<>>
    /\ playerState' = postMessageToVideo("pauseVideo")
    /\ isVideoPlaying' = FALSE
    /\ timers' = timers (+) SetToBag({Timer("restartSeek", 0, sessions)})
    /\ pausedAt' = {}
    /\ UNCHANGED <<showResults, currentResult, listening, sessions>>
    /\ UNCHANGED <<scorerVars, transcriptVars>>

\* lines 317-319
RestartSeekTimer ==
    /\ \E t \in Armed("restartSeek") : timers' = timers (-) SetToBag({t})
    /\ playerState' = postMessageToVideo("seekTo")
    /\ UNCHANGED <<sessionStarted, currentPauseIndex, isVideoPlaying, isRecording,
                   videoCurrentTime, practiceResults, practiceCompleted,
                   currentRecognition, showResults, currentResult, listening,
                   pausedAt, sessions>>
    /\ UNCHANGED <<scorerVars, transcriptVars>>

NextPractice ==
    \/ startPracticeSession
    \/ StartSeekTimer
    \/ StartPlayTimer
    \/ StartFallbackTimer
    \/ handleRetry
    \/ handleNext
    \/ NextSeekTimer
    \/ NextPlayTimer
    \/ NextFallbackTimer
    \/ startRecording
    \/ stopRecording
    \/ onresult
    \/ onend
    \/ handleMessage
    \/ DoubleCheckTimer
    \/ restartPractice
    \/ RestartSeekTimer

\* an armed timeout fires
TimersFire ==
    /\ WF_vars(StartSeekTimer)
    /\ WF_vars(StartPlayTimer)
    /\ WF_vars(StartFallbackTimer)
    /\ WF_vars(NextSeekTimer)
    /\ WF_vars(NextPlayTimer)
    /\ WF_vars(NextFallbackTimer)
    /\ WF_vars(DoubleCheckTimer)
    /\ WF_vars(RestartSeekTimer)

SpecPractice == Init /\ [][NextPractice]_vars /\ TimersFire

-----------------------------------------------------------------------------
(* The transcript route (src/unnamed/part_004): processTranscriptForPractice *)
(* hands its list to mergeShortSegments, which hands the merged list to      *)
(* spaceSuitableForPractice.  Times are in seconds; a subtitle is known by   *)
(* its length, the only thing the two functions read of it.                  *)

\* interface ProcessedSubtitle (lines 11-17)
Segment(id, time, subtitleLength, duration, end) ==
    [id |-> id, time |-> time, subtitleLength |-> subtitleLength,
     duration |-> duration, end |-> end]

\* let currentSegment = null (line 143)
NoSegment == Segment(0, 0, 0, 0, 0)

\* the body of the for loop of mergeShortSegments (lines 145-163), from the
\* i-th segment on; gives merged and currentSegment as they are after the loop
RECURSIVE MergeLoop(_, _, _, _)
MergeLoop(segments, i, mergedSoFar, currentSegment) ==
    IF i > Len(segments) THEN [merged |-> mergedSoFar, currentSegment |-> currentSegment]
    ELSE LET segment == segments[i] IN
         IF segment.duration < 2 \/ segment.subtitleLength < 10
         THEN IF currentSegment # NoSegment
              THEN MergeLoop(segments, i + 1, mergedSoFar,
                       [currentSegment EXCEPT
                           !.subtitleLength = currentSegment.subtitleLength + 1 + segment.subtitleLength,
                           !.duration = segment.end - currentSegment.time,
                           !.end = segment.end])
              ELSE MergeLoop(segments, i + 1, mergedSoFar, segment)
         ELSE MergeLoop(segments, i + 1,
                  IF currentSegment # NoSegment THEN Append(mergedSoFar, currentSegment)
                                                ELSE mergedSoFar,
                  segment)

\* const merged as mergeShortSegments hands it on (lines 140-169)
MergedSegments(segments) ==
    LET after == MergeLoop(segments, 1, <<>>, NoSegment) IN
    IF after.currentSegment # NoSegment THEN Append(after.merged, after.currentSegment)
                                        ELSE after.merged

\* slice(0, 8) of line 190
PracticeSegmentLimit == 8

\* the for loop of spaceSuitableForPractice with > for >=
RECURSIVE SpaceLoopStrict(_, _, _, _)
SpaceLoopStrict(segments, i, spacedSoFar, lastEndTime) ==
    IF i > Len(segments) THEN spacedSoFar
    ELSE IF segments[i].time - lastEndTime > 2
         THEN SpaceLoopStrict(segments, i + 1, Append(spacedSoFar, segments[i]), segments[i].end)
         ELSE SpaceLoopStrict(segments, i + 1, spacedSoFar, lastEndTime)

\* spaceSuitableForPractice with > for >= in line 183
spaceSuitableForPracticeStrict(segments) ==
    LET kept == SpaceLoopStrict(segments, 1, <<>>, 0) IN
    SubSeq(kept, 1, Min2(Len(kept), PracticeSegmentLimit))

\* the for loop of spaceSuitableForPractice (lines 181-187)
RECURSIVE SpaceLoop(_, _, _, _)
SpaceLoop(segments, i, spacedSoFar, lastEndTime) ==
    IF i > Len(segments) THEN spacedSoFar
    ELSE IF segments[i].time - lastEndTime >= 2
         THEN SpaceLoop(segments, i + 1, Append(spacedSoFar, segments[i]), segments[i].end)
         ELSE SpaceLoop(segments, i + 1, spacedSoFar, lastEndTime)

\* spaceSuitableForPractice (lines 174-191): lastEndTime starts at 0
spaceSuitableForPractice(segments) ==
    LET kept == SpaceLoop(segments, 1, <<>>, 0) IN
    SubSeq(kept, 1, Min2(Len(kept), PracticeSegmentLimit))

\* mergeShortSegments (lines 139-172)
mergeShortSegments(segments) == spaceSuitableForPractice(MergedSegments(segments))

\* The lists processTranscriptForPractice builds (lines 112-118): ids are
\* distinct and ascending, end is never before time.  An item is
\*   "spaced": full length, starting 2 s after the item before it ended,
\*   "close":  full length, starting 1 s after the item before it ended,
\*   "short":  under 2 s long, starting 2 s after the item before it ended.
MaxItems == 9

ItemKinds == {"spaced", "close", "short"}

RECURSIVE ItemsOf(_, _, _, _)
ItemsOf(kinds, i, items, lastEnd) ==
    IF i > Len(kinds) THEN items
    ELSE LET time == lastEnd + (IF kinds[i] = "close" THEN 1 ELSE 2)
             duration == IF kinds[i] = "short" THEN 1 ELSE 3
         IN  ItemsOf(kinds, i + 1,
                     Append(items, Segment(i, time, 12, duration, time + duration)),
                     time + duration)

\* transcripts whose items overlap, run backwards, or start at second 0
ScenarioTranscripts ==
    { << Segment(1, 0, 12, 3, 3), Segment(2, 5, 12, 3, 8) >>,
      << Segment(1, 2, 12, 6, 8), Segment(2, 4, 12, 3, 7), Segment(3, 10, 12, 3, 13) >>,
      << Segment(1, 9, 12, 3, 12), Segment(2, 2, 12, 3, 5), Segment(3, 14, 5, 3, 17) >>,
      << Segment(1, 3, 5, 3, 6), Segment(2, 6, 12, 1, 7), Segment(3, 9, 12, 3, 12) >> }

TranscriptInputs ==
    {ItemsOf(kinds, 1, <<>>, 0) : kinds \in UNION {[1..n -> ItemKinds] : n \in 0..MaxItems}}
        \cup ScenarioTranscripts

\* processTranscriptForPractice has built its list (line 122)
InitTranscript ==
    /\ PageInit
    /\ expected = <<>>
    /\ actual = <<>>
    /\ expectedWords = <<>>
    /\ actualWords = <<>>
    /\ matches = 0
    /\ usedIndices = {}
    /\ matchLog = {}
    /\ idx = 0
    /\ pc = "idle"
    /\ staleFrame = FALSE
    /\ result = Pending
    /\ processedItems \in TranscriptInputs
    /\ merged = <<>>
    /\ spaced = <<>>
    /\ stage = "processed"

\* lines 139-169: mergeShortSegments up to its return statement
MergeSegments ==
    /\ stage = "processed"
    /\ merged' = MergedSegments(processedItems)
    /\ stage' = "merged"
    /\ UNCHANGED <<processedItems, spaced, scorerVars, pageVars>>

\* lines 171 and 174-191: the call of spaceSuitableForPractice and its return
SpaceSegments ==
    /\ stage = "merged"
    /\ spaced' = spaceSuitableForPractice(merged)
    /\ stage' = "spaced"
    /\ UNCHANGED <<processedItems, merged, scorerVars, pageVars>>

NextTranscript ==
    \/ MergeSegments
    \/ SpaceSegments

SpecTranscript == InitTranscript /\ [][NextTranscript]_vars

-----------------------------------------------------------------------------
(* Properties *)

Returned == pc = "done"

\* C1: every call returns an integer r with 0 <= r <= 100, whatever the two
\* input strings are.
C1_ResultInRange == Returned => result \in 0..100

C1_Witness == Returned /\ result = 50 /\ Len(expectedWords) = 2

\* The expected-token positions that were paired with an actual token
MatchedExpected == {m.e : m \in matchLog}

\* C2: the match count is the number of expected tokens that found a match: no
\* expected position is paired twice over both passes, and the score is the
\* rounded percentage of expected tokens that found a match.
C2_OneMatchPerExpectedToken ==
    (Returned /\ Len(expectedWords) > 0) =>
        /\ \A m1, m2 \in matchLog : m1.e = m2.e => m1 = m2
        /\ matches = Cardinality(MatchedExpected)
        /\ result = (200 * Cardinality(MatchedExpected) + Len(expectedWords))
                        \div (2 * Len(expectedWords))

\* whitespace-only (or empty) text
WhitespaceOnly(text) == \A k \in 1..Len(text) : IsSpaceChar(text[k])

\* C3 as stated: s scored against itself gives 100 for every s that is
\* non-empty and not whitespace-only.
C3_SelfScoreNonBlank ==
    (Returned /\ expected = actual /\ expected # <<>> /\ ~WhitespaceOnly(expected))
        => result = 100

\* C3 (amended): s scored against itself gives 100 for every s that
\* normalises to at least one token.
C3_SelfScoreWithTokens ==
    (Returned /\ expected = actual /\ Len(normalizeText(expected)) > 0)
        => result = 100

C3_Witness ==
    /\ Returned
    /\ expected = TxtHelloWorldPunct
    /\ actual = TxtHelloWorldPunct
    /\ Len(expectedWords) = 2
    /\ result = 100

ExactMatches == Cardinality({m \in matchLog : m.pass = "exact"})

FuzzyMatches == Cardinality({m \in matchLog : m.pass = "fuzzy"})

IsFineThankYouCall == expected = TxtFineThankYou /\ actual = TxtFindThankU

\* C4 as stated: "I am fine thank you" against "I am find thank u" has 3 exact
\* matches, no fuzzy match, and scores 60.
C4_FineThankYouScores60 ==
    (Returned /\ IsFineThankYouCall) =>
        /\ ExactMatches = 3
        /\ FuzzyMatches = 0
        /\ result = 60

\* C4 (amended): "I am fine thank you" against "I am find thank u" has 3 exact
\* matches (i, am, thank) and one fuzzy match, fine/find at similarity 3/4;
\* you/u at similarity 1/3 is no match; the score is 80.
C4_FineThankYouScores80 ==
    (Returned /\ IsFineThankYouCall) =>
        /\ {m.e : m \in {x \in matchLog : x.pass = "exact"}} = {0, 1, 3}
        /\ {m \in matchLog : m.pass = "fuzzy"} = {[e |-> 2, a |-> 2, pass |-> "fuzzy"]}
        /\ calculateWordSimilarity(expectedWords[3], actualWords[3]) = [num |-> 3, den |-> 4]
        /\ calculateWordSimilarity(expectedWords[5], actualWords[5]) = [num |-> 1, den |-> 3]
        /\ result = 80

C4_Witness == Returned /\ IsFineThankYouCall /\ matches = 4

\* C5: a call with an empty expected or an empty actual text returns 0, and
\* returns before anything is tokenized or matched.
C5_EmptyInputReturnsZero ==
    (Returned /\ (expected = <<>> \/ actual = <<>>)) =>
        /\ result = 0
        /\ expectedWords = <<>>
        /\ actualWords = <<>>
        /\ matchLog = {}

C5_Witness == Returned /\ expected = <<"a">> /\ actual = <<>> /\ result = 0

\* similarity strictly greater than 0.6 = 3/5, on the exact fraction
StrictlyAboveThreshold(word1, word2) ==
    LET sim == calculateWordSimilarity(word1, word2)
    IN  5 * sim.num > 3 * sim.den

PassesOver == pc \in {"score", "done"} /\ Len(expectedWords) > 0

\* C6: the fuzzy pass pairs an expected token with an actual token only if their
\* similarity is strictly above 0.6, and leaves no unused actual token whose
\* similarity to a fuzzy-unmatched expected token is above 0.6 (unless every
\* expected token is already counted); similarity exactly 0.6 (hello/help) is
\* no match, similarity 2/3 (cat/cot) is a match.
C6_FuzzyThresholdStrict ==
    /\ \A m \in matchLog : m.pass = "fuzzy" =>
           StrictlyAboveThreshold(expectedWords[m.e + 1], actualWords[m.a + 1])
    /\ (PassesOver /\ matches < Len(expectedWords)) =>
           \A p \in 0..(Len(expectedWords) - 1) :
               (\A m \in matchLog : ~(m.pass = "fuzzy" /\ m.e = p)) =>
                   \A j \in (0..(Len(actualWords) - 1)) \ usedIndices :
                       ~StrictlyAboveThreshold(expectedWords[p + 1], actualWords[j + 1])
    /\ (Returned /\ expected = TxtHello /\ actual = TxtHelp) =>
           /\ calculateWordSimilarity(TxtHello, TxtHelp) = [num |-> 3, den |-> 5]
           /\ result = 0
    /\ (Returned /\ expected = TxtCat /\ actual = TxtCot) =>
           /\ calculateWordSimilarity(TxtCat, TxtCot) = [num |-> 2, den |-> 3]
           /\ result = 100

C6_Witness ==
    /\ Returned
    /\ expected = TxtHello
    /\ actual = TxtHelp
    /\ matchLog = {}
    /\ usedIndices = {}

Count(w, ws) == Cardinality({k \in 1..Len(ws) : ws[k] = w})

\* C7: when every expected token has its own equal actual token (multiset
\* containment, at least one expected token) the score is 100, whatever the
\* order and however many actual tokens are left over.
C7_ContainedTokensScore100 ==
    (/\ Returned
     /\ Len(expectedWords) > 0
     /\ \A w \in Range(expectedWords) : Count(w, expectedWords) <= Count(w, actualWords))
        => result = 100

C7_Witness ==
    /\ Returned
    /\ expected = TxtTest
    /\ actual = TxtTestTest
    /\ usedIndices = {0}
    /\ result = 100

\* the other case of an ASCII letter; any other character is left alone
SwapCase(c) ==
    IF \E k \in 1..Len(UpperLetters) : UpperLetters[k] = c
    THEN LowerLetters[CHOOSE k \in 1..Len(UpperLetters) : UpperLetters[k] = c]
    ELSE IF \E k \in 1..Len(LowerLetters) : LowerLetters[k] = c
    THEN UpperLetters[CHOOSE k \in 1..Len(LowerLetters) : LowerLetters[k] = c]
    ELSE c

SwapCaseAt(text, k) == [text EXCEPT ![k] = SwapCase(text[k])]

IsPunctuation(c) ==
    /\ c \notin Range(LowerLetters) \cup Range(UpperLetters) \cup Digits
    /\ ~IsSpaceChar(c)

RemoveAt(text, k) == SubSeq(text, 1, k - 1) \o SubSeq(text, k + 1, Len(text))

\* C9: removing (or, read backwards, inserting) a character that is neither
\* alphanumeric nor whitespace, in either text, does not change the score.
C9_PunctuationInsensitive ==
    Returned =>
        /\ \A k \in 1..Len(expected) : IsPunctuation(expected[k]) =>
               calculateTextAccuracy(RemoveAt(expected, k), actual) = result
        /\ \A k \in 1..Len(actual) : IsPunctuation(actual[k]) =>
               calculateTextAccuracy(expected, RemoveAt(actual, k)) = result

\* C10: a call's result depends on its two arguments only, whatever calls
\* came before it: it is the value of the function on (expected, actual), and
\* the match counter and used-index set are fresh when the exact pass starts.
C10_DeterministicStateless ==
    /\ Returned => result = calculateTextAccuracy(expected, actual)
    /\ (pc = "exact" /\ idx = 0) => (matches = 0 /\ usedIndices = {})

C10_Witness ==
    /\ Returned
    /\ staleFrame
    /\ usedIndices # {}
    /\ result = 100


Running == pc \in {"exact", "fuzzy", "score"}

\* the iterations and the return still to come in the current call
Remaining ==
    CASE pc = "exact" -> 2 * Len(expectedWords) - idx + 1
      [] pc = "fuzzy" -> Len(expectedWords) - idx + 1
      [] pc = "score" -> 1
      [] OTHER -> 0

WholeTable(word1, word2) == (0..Len(word2)) \X (0..Len(word1))

C11_NoFault ==
    /\ pc \in {"exact", "fuzzy"} => idx \in 0..(Len(expectedWords) - 1)
    /\ Running => usedIndices \subseteq 0..(Len(actualWords) - 1)
    /\ \A m \in matchLog : m.e \in 0..(Len(expectedWords) - 1)
    /\ pc = "fuzzy" =>
           \A j \in 0..(Len(actualWords) - 1) :
               LET ew  == expectedWords[idx + 1]
                   aw  == actualWords[j + 1]
                   acc == MatrixAccesses(ew, aw)
               IN  /\ Len(ew) > 0 /\ Len(aw) > 0
                   /\ \A k \in 1..Len(acc) : ~FaultyAccess(acc, k)
                   /\ WrittenBefore(acc, Len(acc)) = WholeTable(ew, aw)
    /\ Running => ENABLED (ExactStep \/ FuzzyStep \/ Return)
    /\ Returned => result \in Nat

C11_Progress == Running => Remaining' < Remaining

\* C11: every call runs to its return without a fault: in each pass the token
\* index stays in range, every edit-distance table is filled completely with
\* no cell read before it is written, a running call can always take its next
\* step, each step brings the return nearer, and a number is returned.
C11_TerminatesWithoutFault == []C11_NoFault /\ [][C11_Progress]_vars

C11_Witness ==
    /\ pc = "fuzzy"
    /\ IsFineThankYouCall
    /\ idx = 2
    /\ LET acc == MatrixAccesses(expectedWords[3], actualWords[3])
       IN  WrittenBefore(acc, Len(acc)) = WholeTable(expectedWords[3], actualWords[3])

\* The reference edit distance: unit-cost insertion, deletion and substitution
RECURSIVE Levenshtein(_, _)
Levenshtein(a, b) ==
    IF Len(a) = 0 THEN Len(b)
    ELSE IF Len(b) = 0 THEN Len(a)
    ELSE Min2(Levenshtein(Tail(a), Tail(b)) + (IF Head(a) = Head(b) THEN 0 ELSE 1),
              Min2(Levenshtein(Tail(a), b) + 1, Levenshtein(a, Tail(b)) + 1))

\* The reference similarity, as the fraction num / den
ReferenceSimilarity(a, b) ==
    IF Len(a) = 0 /\ Len(b) = 0 THEN [num |-> 1, den |-> 1]
    ELSE IF Len(a) = 0 \/ Len(b) = 0 THEN [num |-> 0, den |-> 1]
    ELSE [num |-> Max2(Len(a), Len(b)) - Levenshtein(a, b), den |-> Max2(Len(a), Len(b))]

\* the tokens of the current call, and the empty token
TokensInCall == Range(expectedWords) \cup Range(actualWords) \cup {<<>>}

CallEntered == pc = "exact" /\ idx = 0

\* C13: for all tokens a, b calculateWordSimilarity(a, b) is the reference
\* similarity (1 for two empty tokens, 0 for exactly one empty token, else
\* (max length - Levenshtein distance) / max length) and lies in [0, 1].
C13_SimilarityIsReference ==
    CallEntered =>
        \A a, b \in TokensInCall :
            LET sim == calculateWordSimilarity(a, b)
                ref == ReferenceSimilarity(a, b)
            IN  /\ sim.den > 0
                /\ sim.num * ref.den = ref.num * sim.den
                /\ 0 <= sim.num /\ sim.num <= sim.den

C13_Witness ==
    /\ CallEntered
    /\ IsFineThankYouCall
    /\ calculateWordSimilarity(expectedWords[5], actualWords[3]) = [num |-> 0, den |-> 4]
    /\ Levenshtein(expectedWords[4], actualWords[3]) = 4


\* both texts of the call went through normalizeText
Tokenized == pc # "idle" /\ ~(expected = <<>> \/ actual = <<>>)

AllTokens == Range(expectedWords) \cup Range(actualWords)

\* C14: every token consists of lower-case letters and digits only.
C14_TokensAlphanumeric ==
    Tokenized =>
        \A w \in AllTokens : \A k \in 1..Len(w) : w[k] \in Range(LowerLetters) \cup Digits

\* the text as the tokenizer splits it: lower-cased, with every character
\* dropped that is neither a letter, a digit, an underscore nor whitespace
Cleaned(text) ==
    SelectSeq([k \in 1..Len(text) |-> LowerChar(text[k])],
              LAMBDA c : c \in Range(LowerLetters) \cup Digits \cup {"_"} \/ IsSpaceChar(c))

\* the positions where a word begins / ends in t
WordStarts(t) ==
    {k \in 1..Len(t) : ~IsSpaceChar(t[k]) /\ (k = 1 \/ IsSpaceChar(t[k - 1]))}

WordEnds(t) ==
    {k \in 1..Len(t) : ~IsSpaceChar(t[k]) /\ (k = Len(t) \/ IsSpaceChar(t[k + 1]))}

\* the n-th smallest member of a set of numbers
Nth(S, n) == CHOOSE x \in S : Cardinality({y \in S : y < x}) = n - 1

\* words are the surviving words of text, in their order, none of them empty
IsWordsOf(words, text) ==
    LET t == Cleaned(text)
    IN  /\ Len(words) = Cardinality(WordStarts(t))
        /\ \A n \in 1..Len(words) :
               /\ Len(words[n]) > 0
               /\ words[n] = SubSeq(t, Nth(WordStarts(t), n), Nth(WordEnds(t), n))

\* C15: the tokenizer returns the surviving words in their left-to-right
\* order and no zero-length token, whatever whitespace leads, trails or
\* repeats; an empty or whitespace-only text gives the empty sequence.
C15_TokensInOrderNoneEmpty ==
    /\ normalizeText(<<>>) = <<>>
    /\ Tokenized =>
           /\ IsWordsOf(expectedWords, expected)
           /\ IsWordsOf(actualWords, actual)
           /\ WhitespaceOnly(expected) => expectedWords = <<>>
           /\ WhitespaceOnly(actual) => actualWords = <<>>

C15_Witness ==
    /\ Tokenized
    /\ expected = TxtSpaced
    /\ expectedWords = << <<"a">>, <<"b">> >>


\* the double (matches / expectedWords.length) * 100 lies above 100
DoubleExceeds100(x) ==
    IF x.exp >= 0
    THEN \/ x.limbs[1] > 100 * Pow2(x.exp)
         \/ x.limbs[1] = 100 * Pow2(x.exp) /\ \E i \in 2..5 : x.limbs[i] > 0
    ELSE TRUE

\* C20: the returned value is the percentage matches / expected tokens rounded
\* to the nearest integer with halves rounded up, which for m matches of E
\* expected tokens is floor((200*m + E) / (2*E)) capped at 100; capping before
\* or after the rounding gives the same value.
C20_RoundedHalfUp ==
    (Returned /\ Len(expectedWords) > 0) =>
        LET m == matches
            E == Len(expectedWords)
            accuracy == DoubleTimes100(DoubleDivide(m, E))
        IN  /\ result = Min2(100, (200 * m + E) \div (2 * E))
            /\ result = (IF DoubleExceeds100(accuracy) THEN 100 ELSE MathRoundDouble(accuracy))


\* the 0-based indices at which word w stands in ws
Occurrences(w, ws) == {j \in 0..(Len(ws) - 1) : ws[j + 1] = w}

\* the n smallest members of a set of numbers
Lowest(S, n) == {x \in S : Cardinality({y \in S : y < x}) < n}

\* the size of the multiset intersection of two token sequences
CommonTokens(eWords, aWords) ==
    Cardinality({p \in 1..Len(eWords) :
        Cardinality({q \in 1..p : eWords[q] = eWords[p]}) <= Count(eWords[p], aWords)})

AfterExactPass == pc = "fuzzy" /\ idx = 0

\* C16: pass 1 is greedy first-available. Every exact pairing takes the lowest
\* actual index with equal text that no earlier expected token has taken; after
\* pass 1 the used indices of a word w are the first min(count of w in expected,
\* count of w in actual) occurrences of w in the actual sequence, and the match
\* count is the size of the multiset intersection of the two sequences.
C16_ExactPassGreedy ==
    /\ \A m \in matchLog : m.pass = "exact" =>
           /\ actualWords[m.a + 1] = expectedWords[m.e + 1]
           /\ \A j \in 0..(m.a - 1) :
                  actualWords[j + 1] = expectedWords[m.e + 1] =>
                      \E m2 \in matchLog : m2.a = j /\ m2.e < m.e /\ m2.pass = "exact"
    /\ AfterExactPass =>
           /\ \A w \in Range(expectedWords) \cup Range(actualWords) :
                  usedIndices \cap Occurrences(w, actualWords)
                      = Lowest(Occurrences(w, actualWords),
                               Min2(Count(w, expectedWords), Count(w, actualWords)))
           /\ matches = CommonTokens(expectedWords, actualWords)
           /\ \A m \in matchLog : m.pass = "exact"

C16_Witness ==
    /\ AfterExactPass
    /\ expected = TxtTest
    /\ actual = TxtTestTest
    /\ usedIndices = {0}
    /\ matches = 1

\* C17: no actual index is matched twice, over both passes; a fuzzy pairing
\* takes the lowest actual index that is unused at that moment and whose
\* similarity is above 0.6; and in every reachable state the match count is the
\* number of used actual indices.
C17_NoIndexMatchedTwice ==
    /\ matches = Cardinality(usedIndices)
    /\ pc # "idle" => usedIndices = {m.a : m \in matchLog}
    /\ \A m1, m2 \in matchLog : m1.a = m2.a => m1 = m2
    /\ \A m \in matchLog : m.pass = "fuzzy" =>
           /\ StrictlyAboveThreshold(expectedWords[m.e + 1], actualWords[m.a + 1])
           /\ \A j \in 0..(m.a - 1) :
                  \/ ~StrictlyAboveThreshold(expectedWords[m.e + 1], actualWords[j + 1])
                  \/ \E m2 \in matchLog :
                         m2.a = j /\ (m2.pass = "exact" \/ m2.e < m.e)

C17_Witness ==
    /\ pc = "score"
    /\ IsFineThankYouCall
    /\ usedIndices = {0, 1, 2, 3}
    /\ \E m \in matchLog : m.pass = "fuzzy" /\ m.a = 2

\* C18: in every state of a scoring call the match count is at most the number
\* of expected tokens and at most the number of actual tokens, so that the
\* percentage never lies above 100 and Math.min leaves the rounded value as it is.
C18_MatchesBounded ==
    (Running \/ (Returned /\ Len(expectedWords) > 0)) =>
        /\ matches <= Len(expectedWords)
        /\ matches <= Len(actualWords)
        /\ LET accuracy == DoubleTimes100(DoubleDivide(matches, Len(expectedWords)))
           IN  /\ ~DoubleExceeds100(accuracy)
               /\ MathRoundDouble(accuracy) <= 100
               /\ Returned => result = MathRoundDouble(accuracy)

C18_Witness ==
    /\ Returned
    /\ expected = TxtTest
    /\ actual = TxtTestTest
    /\ matches = 1
    /\ result = 100

\* C19: once the match count equals the number of expected tokens, every
\* remaining iteration of pass 2 leaves the match count and the used indices as
\* they are; when pass 1 matched every expected token, pass 2 changes nothing.
C19_Saturated == pc = "fuzzy" /\ matches = Len(expectedWords)

C19_ShortCircuitFrame ==
    [][C19_Saturated =>
           /\ matches' = matches
           /\ usedIndices' = usedIndices
           /\ matchLog' = matchLog
           /\ (pc' = "fuzzy" => matches' = Len(expectedWords'))]_vars

C19_Witness ==
    /\ pc = "score"
    /\ expectedWords = << <<"a">> >>
    /\ actualWords = << <<"a">>, <<"a">> >>
    /\ matches = 1
    /\ usedIndices = {0}


PlayingTowardsPause == sessionStarted /\ ~practiceCompleted /\ isVideoPlaying

VideoPaused == ~isVideoPlaying /\ playerState = "paused"

SessionAdvances == currentPauseIndex' = currentPauseIndex + 1

\* C12: in a started, uncompleted session the video that is playing towards the
\* current pause point is eventually paused (pauseVideo posted, isVideoPlaying
\* false), and the session never advances to the next pause point unless the
\* playing video has been stopped at the current one.
C12_VideoStopsAtEachPause ==
    /\ PlayingTowardsPause ~> VideoPaused
    /\ [][SessionAdvances => currentPauseIndex \in pausedAt]_vars


\* C21: an expected text without tokens scores 0 and the division of line 114
\* is never reached with expectedWords.length = 0; an actual text without
\* tokens scores 0 against an expected text that has tokens.
C21_NoTokensScoreZero ==
    /\ pc = "score" => Len(expectedWords) > 0
    /\ Returned =>
           /\ Len(normalizeText(expected)) = 0 => result = 0
           /\ (Len(normalizeText(expected)) > 0 /\ Len(normalizeText(actual)) = 0)
                  => result = 0

C21_Witness ==
    /\ Returned
    /\ expected = <<",", " ">>
    /\ actual = <<"a">>
    /\ expectedWords = <<>>
    /\ result = 0

\* the words that may be appended to the actual text of the call
ExtraWords == Vocabulary \cup Range(expectedWords)

WithExtra(text, x) == text \o <<" ">> \o x

\* C22: appending a word to the end of the actual text never lowers the score.
C22_ExtraSpeechNotPenalised ==
    Returned =>
        \A x \in ExtraWords :
            calculateTextAccuracy(expected, WithExtra(actual, x)) >= result

C22_Witness ==
    /\ Returned
    /\ expectedWords = << <<"a">>, <<"a", "b">> >>
    /\ actualWords = << <<"a">> >>
    /\ result = 50
    /\ calculateTextAccuracy(expected, WithExtra(actual, <<"a", "b">>)) = 100

SameFraction(f, g) == f.num * g.den = g.num * f.den

IsOne(f) == f.num = f.den

\* C30: the similarity is symmetric, it is 1 exactly for equal tokens, and so a
\* pair the exact pass accepts is one the fuzzy predicate accepts too.
C30_SimilaritySymmetric ==
    CallEntered =>
        \A a, b \in TokensInCall :
            /\ SameFraction(calculateWordSimilarity(a, b), calculateWordSimilarity(b, a))
            /\ IsOne(calculateWordSimilarity(a, b)) <=> a = b
            /\ a = b => SimilarEnough(a, b)

C30_Witness ==
    /\ CallEntered
    /\ IsFineThankYouCall
    /\ calculateWordSimilarity(expectedWords[3], actualWords[3]) = [num |-> 3, den |-> 4]
    /\ calculateWordSimilarity(actualWords[3], expectedWords[3]) = [num |-> 3, den |-> 4]
    /\ calculateWordSimilarity(expectedWords[4], actualWords[4]) = [num |-> 5, den |-> 5]


\* the segments of the merged list that were returned, by position
KeptIndices == {i \in 1..Len(merged) : \E j \in 1..Len(spaced) : spaced[j].id = merged[i].id}

KeptBefore(i) == {k \in KeptIndices : k < i}

Latest(S) == CHOOSE k \in S : \A l \in S : l <= k

C23_NoPlaybackWhileRecording == isRecording => ~isVideoPlaying

\* C24: once the session is completed, practiceResults holds one result for
\* each pause point, in pause order.
C24_OneResultPerPause ==
    practiceCompleted =>
        /\ Len(practiceResults) = Len(pauses)
        /\ \A i \in 1..Len(pauses) : practiceResults[i].pauseId = pauses[i].id

FallbackTimers == Armed("startFallback") \cup Armed("nextFallback")

\* the timer was armed in another session or for another pause point than the
\* page is at now
LeftOver(t) ==
    \/ ~sessionStarted
    \/ t.session # sessions
    \/ t.pause # currentPauseIndex

\* C25: a fallback timer left over from an earlier session or an earlier pause
\* point, when it fires, neither pauses the video nor clears isVideoPlaying.
C25_LeftOverFallbackHasNoEffect ==
    [][\A t \in FallbackTimers :
           (LeftOver(t) /\ timers' = timers (-) SetToBag({t}))
               => (isVideoPlaying' = isVideoPlaying /\ playerState' = playerState)]_vars

\* C26: restartPractice returns every piece of session state to its initial
\* value, and a session started afterwards begins at the first pause with no
\* result displayed.
C26_RestartResetsEverything ==
    [][/\ restartPractice =>
              /\ sessionStarted' = FALSE
              /\ currentPauseIndex' = 0
              /\ practiceResults' = <<>>
              /\ practiceCompleted' = FALSE
              /\ isVideoPlaying' = FALSE
              /\ isRecording' = FALSE
              /\ currentRecognition' = <<>>
              /\ showResults' = FALSE
              /\ currentResult' = NoResult
       /\ startPracticeSession => (currentPauseIndex' = 0 /\ ~ResultPanelShown')]_vars

\* C27: the pause index stays within the pause list and there is at most one
\* result more than pause points passed.
C27_IndexAndResultsInRange ==
    /\ 0 <= currentPauseIndex
    /\ currentPauseIndex < Len(pauses)
    /\ Len(practiceResults) <= currentPauseIndex + 1

\* C28: handleRetry removes the result recorded last and hides the result
\* panel, leaves currentPauseIndex, practiceCompleted, sessionStarted and the
\* earlier results alone, and afterwards practiceResults is as long as
\* currentPauseIndex.
C28_RetryRemovesLastResult ==
    [][handleRetry =>
           /\ Len(practiceResults) > 0
           /\ practiceResults' = SubSeq(practiceResults, 1, Len(practiceResults) - 1)
           /\ showResults' = FALSE
           /\ currentPauseIndex' = currentPauseIndex
           /\ practiceCompleted' = practiceCompleted
           /\ sessionStarted' = sessionStarted
           /\ Len(practiceResults') = currentPauseIndex']_vars

====
